---- MODULE Spec2Model ----
(***************************************************************************)
(* Model of the message-loop runtime of looper_handler_cpp:                *)
(*   MessageQueue / Looper / Handler   (looper_handler.cpp, .h)            *)
(*   HandlerThread                     (HandlerThread.cpp, .h)             *)
(*   WorkerThread                      (WorkerThread.cpp, .h)              *)
(* One HandlerThread/WorkerThread object, its worker thread, and a small   *)
(* set of user threads calling its public operations.                      *)
(***************************************************************************)
EXTENDS Integers, Sequences, FiniteSets, TLC

\* ---------------------------------------------------------------- bounds
\* Largest value of the monotonic clock (steady_clock ticks).
MaxTime == 3
\* Largest delay passed to postDelayed.
MaxDelay == 2
\* Number of messages accepted by the queue over one behaviour.
MaxMsgs == 3
\* Number of Looper objects allocated over one behaviour.
MaxLoopers == 3

\* ------------------------------------------------------------- constants
Users == {"u1", "u2"}
Worker == "worker"
Threads == Users \cup {Worker}
NoThread == "none"

\* A Looper object: the owning thread recorded by its constructor, and the
\* allocation it is (gen).  NullLooper is the empty shared_ptr.
NullLooper == [mThreadId |-> NoThread, gen |-> 0]
NullHandler == "nullptr"
TheWorkerHandler == "WorkerHandler"
NoCallback == "none"
\* the Handler objects the users create on the worker's Looper
Handlers == {"h1", "h2"}
\* message codes (Message::what)
Whats == {0, 1}
NoMsg == [seq |-> 0, what |-> 0, target |-> NullHandler, callback |-> NoCallback, when |-> 0]
\* steady_clock::time_point::max()
Forever == MaxTime + 1
UnsetPromise == [state |-> "unset", value |-> NullLooper]
\* no Looper::prepare / Looper::loop call has been made by a user thread
NoErr == [op |-> "none", thread |-> NoThread, hadLooper |-> FALSE, err |-> "none"]
\* the WorkerThread object is alive and its destructor has not been entered
NotDestroyed == [phase |-> "none", running |-> FALSE, at |-> 0]

VARIABLES
    clock,            \* std::chrono::steady_clock::now()
    mMessages,        \* MessageQueue::mMessages
    mQuitting,        \* MessageQueue::mQuitting
    qMutex,           \* owner of MessageQueue::mMutex between two steps
    cvNotified,       \* a notification is pending for the thread waiting on mCondVar
    pc,               \* position of the worker thread in run()/loop()/next()
    cur,              \* Looper::loop: the message being dispatched
    nowLocal,         \* MessageQueue::next: local `now`
    nextPollTimeout,  \* MessageQueue::next: local `nextPollTimeout`
    tLooper,          \* Looper::tLooper, one slot per thread
    mThread,          \* HandlerThread::mThread: "unstarted", "joinable", "joined"
    mLooper,          \* HandlerThread::mLooper (cache)
    promise,          \* HandlerThread::mLooperPromise / mLooperFuture
    htMutex,          \* owner of HandlerThread::mMutex
    mWorkerHandler,   \* WorkerThread::mWorkerHandler
    upc,              \* per user thread: "idle" or the call it is blocked in
    posted,           \* history: accepted messages, in the order the enqueues took effect
    dispatched,       \* history: the messages (seq) returned by next(), in order
    lastRet,          \* history: the boolean returned by the last call that returns one
    glLast,           \* history: what the last HandlerThread::getLooper call returned
    glFirst,          \* history: the first Looper handle a getLooper call returned
    uQuitting,        \* per user thread: mQuitting of the queue of the Looper it installed
    nextGen,          \* the next Looper allocation
    lastErr,          \* history: outcome of the last Looper::prepare / Looper::loop call of a user thread
    invoked,          \* history: what Looper::loop did with each message next() returned, in order
    released,         \* the Handlers whose owner has dropped its last shared_ptr
    dtor              \* ~WorkerThread: its phase, and the state it found the object in

qvars == <<mMessages, mQuitting, qMutex, cvNotified>>
wvars == <<pc, cur, nowLocal, nextPollTimeout>>
htvars == <<mThread, mLooper, promise, htMutex, mWorkerHandler>>
hist == <<posted, dispatched, lastRet, glLast, glFirst>>
lvars == <<uQuitting, nextGen, lastErr>>
dvars == <<invoked, released, dtor>>
vars == <<clock, qvars, wvars, tLooper, htvars, upc, hist, lvars, dvars>>

\* ------------------------------------------------------- pure operators

\* std::upper_bound(begin, end, msg, a.when < b.when): the first position
\* whose message has a `when` greater than the new one (Len+1 if none).
RECURSIVE UpperBoundFrom(_, _, _)
UpperBoundFrom(msgs, when, i) ==
    IF i > Len(msgs) THEN i
    ELSE IF when < msgs[i].when THEN i
    ELSE UpperBoundFrom(msgs, when, i + 1)

\* Mutant: std::lower_bound, the first position whose `when` is not smaller.
RECURSIVE LowerBoundFrom(_, _, _)
LowerBoundFrom(msgs, when, i) ==
    IF i > Len(msgs) THEN i
    ELSE IF when <= msgs[i].when THEN i
    ELSE LowerBoundFrom(msgs, when, i + 1)

UpperBound_lower(msgs, when) == LowerBoundFrom(msgs, when, 1)

\* Mutant: push_back instead of a sorted insert.
UpperBound_back(msgs, when) == Len(msgs) + 1

UpperBound(msgs, when) == UpperBoundFrom(msgs, when, 1)

\* mMessages.insert(it, msg)
InsertAt(msgs, i, m) == SubSeq(msgs, 1, i - 1) \o <<m>> \o SubSeq(msgs, i, Len(msgs))

\* Mutant: the front message is handed out without looking at the clock.
FrontIsDue_always(front, now) == TRUE

\* next(): frontMsg.when <= now
FrontIsDue(front, now) == front.when <= now

\* Mutant: quit() leaves the pending messages in the queue.
ClearMessages_keep(msgs) == msgs

\* quit(): mMessages.clear()
ClearMessages(msgs) == << >>

\* Mutant: enqueueMessage does not look at mQuitting.
EnqueueRejected_never(quitting) == FALSE

\* enqueueMessage: if (mQuitting) return false
EnqueueRejected(quitting) == quitting

\* postDelayed / sendMessageDelayed: if (delayMillis < 0) delayMillis = 0
ClampDelay(d) == IF d < 0 THEN 0 ELSE d

\* Mutant: getLooper does not wait for the publication.
MustWaitForFuture_never(cache, prom) == FALSE

\* getLooper: mLooperFuture.get() blocks while nothing is published and
\* nothing is cached.
MustWaitForFuture(cache, prom) == cache = NullLooper /\ prom.state = "unset"

\* getLooper, under mMutex: the cached handle, or the future's value (an
\* exception stored in the future is caught and yields nullptr).
LooperAfterGet(cache, prom) ==
    IF cache # NullLooper THEN cache
    ELSE IF prom.state = "value" THEN prom.value
    ELSE NullLooper

\* Looper::Looper(): mThreadId(std::this_thread::get_id())
NewLooper(t) == [mThreadId |-> t, gen |-> 1]

DispatchedSeqs == {dispatched[i] : i \in 1..Len(dispatched)}

\* Mutant: the predicate of removeMessages without its `!msg.callback` test.
MatchesMessage_anyKind(msg, h, what) == msg.target = h /\ msg.what = what

\* removeMessages: msg.target == h && msg.what == what && !msg.callback
MatchesMessage(msg, h, what) ==
    msg.target = h /\ msg.what = what /\ msg.callback = NoCallback

\* Mutant: the predicate of removeCallbacks without its target test.
MatchesCallback_anyTarget(msg, h) == msg.callback # NoCallback

\* removeCallbacks: msg.target == h && msg.callback
MatchesCallback(msg, h) == msg.target = h /\ msg.callback # NoCallback

\* Mutant: erase only the first matching message (find_if + erase).
RECURSIVE RemoveMessagesFrom_first(_, _, _)
RemoveMessagesFrom_first(msgs, h, what) ==
    IF msgs = << >> THEN << >>
    ELSE IF MatchesMessage(Head(msgs), h, what) THEN Tail(msgs)
    ELSE <<Head(msgs)>> \o RemoveMessagesFrom_first(Tail(msgs), h, what)

\* mMessages.erase(std::remove_if(begin, end, pred), end): std::remove_if keeps
\* the elements that do not match, in their relative order
RECURSIVE RemoveMessagesFrom(_, _, _)
RemoveMessagesFrom(msgs, h, what) ==
    IF msgs = << >> THEN << >>
    ELSE IF MatchesMessage(Head(msgs), h, what)
         THEN RemoveMessagesFrom(Tail(msgs), h, what)
         ELSE <<Head(msgs)>> \o RemoveMessagesFrom(Tail(msgs), h, what)

RECURSIVE RemoveCallbacksFrom(_, _)
RemoveCallbacksFrom(msgs, h) ==
    IF msgs = << >> THEN << >>
    ELSE IF MatchesCallback(Head(msgs), h)
         THEN RemoveCallbacksFrom(Tail(msgs), h)
         ELSE <<Head(msgs)>> \o RemoveCallbacksFrom(Tail(msgs), h)

\* user code: the handleMessage override of the Handlers throws on code 1
HandleMessageThrows(msg) == msg.what = 1

\* Mutant: Looper::loop without its try/catch around the dispatch.
FaultCaught_none == FALSE

\* Looper::loop: every dispatch is wrapped in try { } catch (const
\* std::exception&) { } catch (...) { }
FaultCaught == TRUE

\* Looper::loop after a dispatch: the while loop goes on, or the exception
\* leaves loop() and run(), which ends the thread
AfterDispatch(threw) == IF threw /\ ~FaultCaught THEN "exited" ELSE "next"

\* Mutant: prepare() does not look at the thread-local slot.
PrepareRejected_never(slot) == FALSE

\* Looper::prepare: if (tLooper) throw
PrepareRejected(slot) == slot # NullLooper

\* Looper::loop: the error of its two checks on me = myLooper(), run on thread t
LoopError(me, t) ==
    IF me = NullLooper THEN "NoLooper"
    ELSE IF me.mThreadId # t THEN "WrongThread"
    ELSE "none"

\* ------------------------------------------------------------------ Init
Init ==
    /\ clock = 0
    /\ mMessages = << >>
    /\ mQuitting = FALSE
    /\ qMutex = NoThread
    /\ cvNotified = FALSE
    /\ pc = "unstarted"
    /\ cur = NoMsg
    /\ nowLocal = 0
    /\ nextPollTimeout = 0
    /\ tLooper = [t \in Threads |-> NullLooper]
    /\ mThread = "unstarted"
    /\ mLooper = NullLooper
    /\ promise = UnsetPromise
    /\ htMutex = NoThread
    /\ mWorkerHandler = NullHandler
    /\ upc = [u \in Users |-> "idle"]
    /\ posted = << >>
    /\ dispatched = << >>
    /\ lastRet = [op |-> "none", val |-> FALSE]
    /\ glLast = [called |-> FALSE, joinable |-> FALSE, val |-> NullLooper]
    /\ glFirst = NullLooper
    /\ uQuitting = [u \in Users |-> FALSE]
    /\ nextGen = 2
    /\ lastErr = NoErr
    /\ invoked = << >>
    /\ released = {}
    /\ dtor = NotDestroyed

\* ------------------------------------------------- MessageQueue critical sections

\* Mutant: quit() has no effect on the queue.
QuitQueue_noop == UNCHANGED <<mMessages, mQuitting, cvNotified>>

\* Mutant: quit() without mCondVar.notify_all().
QuitQueue_silent ==
    IF ~mQuitting
    THEN /\ mQuitting' = TRUE
         /\ mMessages' = ClearMessages(mMessages)
         /\ UNCHANGED cvNotified
    ELSE UNCHANGED <<mMessages, mQuitting, cvNotified>>

\* MessageQueue::quit, under mMutex (notify_all reaches the consumer only if
\* it is waiting on the condition variable).
QuitQueue ==
    IF ~mQuitting
    THEN /\ mQuitting' = TRUE
         /\ mMessages' = ClearMessages(mMessages)
         /\ cvNotified' = (pc = "waiting")
    ELSE UNCHANGED <<mMessages, mQuitting, cvNotified>>

\* Mutant: enqueueMessage without mCondVar.notify_one().
EnqueueMsg_silent(op, what, cb, target, when) ==
    IF EnqueueRejected(mQuitting)
    THEN /\ lastRet' = [op |-> op, val |-> FALSE]
         /\ UNCHANGED <<mMessages, cvNotified, posted>>
    ELSE /\ Len(posted) < MaxMsgs
         /\ LET msg == [seq |-> Len(posted) + 1, what |-> what, target |-> target,
                        callback |-> cb, when |-> when]
            IN /\ mMessages' = InsertAt(mMessages, UpperBound(mMessages, when), msg)
               /\ posted' = Append(posted, msg)
         /\ UNCHANGED cvNotified
         /\ lastRet' = [op |-> op, val |-> TRUE]

\* MessageQueue::enqueueMessage, under mMutex, of a message with code `what`;
\* op names the public call whose boolean result it becomes.
EnqueueMsg(op, what, cb, target, when) ==
    IF EnqueueRejected(mQuitting)
    THEN /\ lastRet' = [op |-> op, val |-> FALSE]
         /\ UNCHANGED <<mMessages, cvNotified, posted>>
    ELSE /\ Len(posted) < MaxMsgs
         /\ LET msg == [seq |-> Len(posted) + 1, what |-> what, target |-> target,
                        callback |-> cb, when |-> when]
            IN /\ mMessages' = InsertAt(mMessages, UpperBound(mMessages, when), msg)
               /\ posted' = Append(posted, msg)
         /\ cvNotified' = IF pc = "waiting" THEN TRUE ELSE cvNotified
         /\ lastRet' = [op |-> op, val |-> TRUE]

\* MessageQueue::enqueueMessage of a runnable (Message::what keeps its default 0)
EnqueueMessage(op, cb, target, when) == EnqueueMsg(op, 0, cb, target, when)

\* ------------------------------------------------------- the worker thread

\* HandlerThread::run: Looper::prepare() and Looper::myLooper()
Run_prepare ==
    /\ pc = "prepare"
    /\ IF tLooper[Worker] = NullLooper
       THEN /\ tLooper' = [tLooper EXCEPT ![Worker] = NewLooper(Worker)]
            /\ pc' = "publish"
            /\ UNCHANGED promise
       ELSE /\ promise' = [state |-> "exception", value |-> NullLooper]
            /\ pc' = "exited"
            /\ UNCHANGED tLooper
    /\ UNCHANGED <<clock, qvars, cur, nowLocal, nextPollTimeout, mThread, mLooper,
                   htMutex, mWorkerHandler, upc, hist>>
    /\ UNCHANGED <<lvars, dvars>>

\* HandlerThread::run: mLooperPromise.set_value(myLooper)
Run_publish ==
    /\ pc = "publish"
    /\ promise' = [state |-> "value", value |-> tLooper[Worker]]
    /\ pc' = "loop"
    /\ UNCHANGED <<clock, qvars, cur, nowLocal, nextPollTimeout, tLooper, mThread,
                   mLooper, htMutex, mWorkerHandler, upc, hist>>
    /\ UNCHANGED <<lvars, dvars>>

\* Looper::loop: the two checks before the while loop.  A throw is caught in
\* run(), whose set_exception on the satisfied promise is swallowed.
Loop_enter ==
    /\ pc = "loop"
    /\ LET me == tLooper[Worker]
       IN pc' = IF me = NullLooper \/ me.mThreadId # Worker THEN "exited" ELSE "next"
    /\ UNCHANGED <<clock, qvars, cur, nowLocal, nextPollTimeout, tLooper, htvars, upc, hist>>
    /\ UNCHANGED <<lvars, dvars>>

\* MessageQueue::next: take mMutex, read the clock
Next_lock ==
    /\ pc = "next"
    /\ qMutex = NoThread
    /\ qMutex' = Worker
    /\ nowLocal' = clock
    /\ pc' = "check"
    /\ UNCHANGED <<clock, mMessages, mQuitting, cvNotified, cur, nextPollTimeout,
                   tLooper, htvars, upc, hist>>
    /\ UNCHANGED <<lvars, dvars>>

\* next() returns nullopt; loop() breaks, clears tLooper; run() returns
Next_quit ==
    /\ pc = "check"
    /\ mQuitting
    /\ qMutex' = NoThread
    /\ nowLocal' = 0
    /\ tLooper' = [tLooper EXCEPT ![Worker] = NullLooper]
    /\ pc' = "exited"
    /\ UNCHANGED <<clock, mMessages, mQuitting, cvNotified, cur, nextPollTimeout,
                   htvars, upc, hist>>
    /\ UNCHANGED <<lvars, dvars>>

\* Mutant: next() returns a copy of the front message and leaves it in the queue.
Next_pop_peek ==
    /\ pc = "check"
    /\ ~mQuitting
    /\ mMessages # << >>
    /\ FrontIsDue(Head(mMessages), nowLocal)
    /\ cur' = Head(mMessages)
    /\ Len(dispatched) < MaxMsgs + 1
    /\ dispatched' = Append(dispatched, Head(mMessages).seq)
    /\ qMutex' = NoThread
    /\ nowLocal' = 0
    /\ pc' = "dispatch"
    /\ UNCHANGED <<clock, mMessages, mQuitting, cvNotified, nextPollTimeout, tLooper, htvars,
                   upc, posted, lastRet, glLast, glFirst>>
    /\ UNCHANGED <<lvars, dvars>>

\* Mutant: next() returns the front message with mMutex still locked.
Next_pop_locked ==
    /\ pc = "check"
    /\ ~mQuitting
    /\ mMessages # << >>
    /\ FrontIsDue(Head(mMessages), nowLocal)
    /\ cur' = Head(mMessages)
    /\ mMessages' = Tail(mMessages)
    /\ dispatched' = Append(dispatched, Head(mMessages).seq)
    /\ nowLocal' = 0
    /\ pc' = "dispatch"
    /\ UNCHANGED <<clock, mQuitting, qMutex, cvNotified, nextPollTimeout, tLooper, htvars,
                   upc, posted, lastRet, glLast, glFirst>>
    /\ UNCHANGED <<lvars, dvars>>

\* next() pops the front message and returns it
Next_pop ==
    /\ pc = "check"
    /\ ~mQuitting
    /\ mMessages # << >>
    /\ FrontIsDue(Head(mMessages), nowLocal)
    /\ cur' = Head(mMessages)
    /\ mMessages' = Tail(mMessages)
    /\ dispatched' = Append(dispatched, Head(mMessages).seq)
    /\ qMutex' = NoThread
    /\ nowLocal' = 0
    /\ pc' = "dispatch"
    /\ UNCHANGED <<clock, mQuitting, cvNotified, nextPollTimeout, tLooper, htvars, upc,
                   posted, lastRet, glLast, glFirst>>
    /\ UNCHANGED <<lvars, dvars>>

\* Mutant: next() waits without looking at mQuitting first.
Next_wait_unchecked ==
    /\ pc = "check"
    /\ ~(mMessages # << >> /\ FrontIsDue(Head(mMessages), nowLocal))
    /\ nextPollTimeout' = IF mMessages # << >> THEN Head(mMessages).when ELSE Forever
    /\ cvNotified' = FALSE
    /\ qMutex' = NoThread
    /\ nowLocal' = 0
    /\ pc' = "waiting"
    /\ UNCHANGED <<clock, mMessages, mQuitting, cur, tLooper, htvars, upc, hist>>
    /\ UNCHANGED <<lvars, dvars>>

\* next() has nothing due: wait / wait_until releases mMutex
Next_wait ==
    /\ pc = "check"
    /\ ~mQuitting
    /\ ~(mMessages # << >> /\ FrontIsDue(Head(mMessages), nowLocal))
    /\ nextPollTimeout' = IF mMessages # << >> THEN Head(mMessages).when ELSE Forever
    /\ cvNotified' = FALSE
    /\ qMutex' = NoThread
    /\ nowLocal' = 0
    /\ pc' = "waiting"
    /\ UNCHANGED <<clock, mMessages, mQuitting, cur, tLooper, htvars, upc, hist>>
    /\ UNCHANGED <<lvars, dvars>>

\* the wait ends by a notification or by the clock reaching nextPollTimeout
Next_wake ==
    /\ pc = "waiting"
    /\ cvNotified \/ clock >= nextPollTimeout
    /\ qMutex = NoThread
    /\ qMutex' = Worker
    /\ cvNotified' = FALSE
    /\ nextPollTimeout' = 0
    /\ nowLocal' = clock
    /\ pc' = "check"
    /\ UNCHANGED <<clock, mMessages, mQuitting, cur, tLooper, htvars, upc, hist>>
    /\ UNCHANGED <<lvars, dvars>>

\* a condition variable may also wake spuriously
Next_spuriousWake ==
    /\ pc = "waiting"
    /\ ~(cvNotified \/ clock >= nextPollTimeout)
    /\ qMutex = NoThread
    /\ qMutex' = Worker
    /\ nextPollTimeout' = 0
    /\ nowLocal' = clock
    /\ pc' = "check"
    /\ UNCHANGED <<clock, mMessages, mQuitting, cvNotified, cur, tLooper, htvars, upc, hist>>
    /\ UNCHANGED <<lvars, dvars>>

\* history: Looper::loop has done `kind` with the message it holds ("callback":
\* msg.callback() was called, "handleMessage": msg.target->dispatchMessage(msg)
\* was called, "none": neither); userHolds tells whether the owner of the
\* target Handler still held its shared_ptr at that moment
Invoke(kind) ==
    invoked' = Append(invoked, [seq |-> cur.seq, kind |-> kind,
                                userHolds |-> cur.target \notin released])

\* Mutant: the callback is still running when loop() calls next() again.
Dispatch_task_detached ==
    /\ pc = "dispatch"
    /\ cur.callback = "task"
    /\ Invoke("callback")
    /\ pc' = "next"
    /\ UNCHANGED <<clock, qvars, cur, nowLocal, nextPollTimeout, tLooper, htvars, upc,
                   hist, lvars, released, dtor>>

\* Looper::loop runs msg.callback(): an ordinary task posted by the user
Dispatch_task ==
    /\ pc = "dispatch"
    /\ cur.callback = "task"
    /\ Invoke("callback")
    /\ cur' = NoMsg
    /\ pc' = "next"
    /\ UNCHANGED <<clock, qvars, nowLocal, nextPollTimeout, tLooper, htvars, upc, hist>>
    /\ UNCHANGED <<lvars, released, dtor>>

\* Looper::loop runs the runnable of WorkerThread::finish: this->quit(),
\* that is HandlerThread::quit() on the worker thread
Dispatch_terminal ==
    /\ pc = "dispatch"
    /\ cur.callback = "quit"
    /\ IF mThread # "joinable"
       THEN UNCHANGED <<qvars, mLooper>>
       ELSE /\ htMutex = NoThread
            /\ ~MustWaitForFuture(mLooper, promise)
            /\ mLooper' = LooperAfterGet(mLooper, promise)
            /\ IF mLooper' # NullLooper
               THEN qMutex = NoThread /\ QuitQueue /\ UNCHANGED qMutex
               ELSE UNCHANGED qvars
    /\ Invoke("callback")
    /\ cur' = NoMsg
    /\ pc' = "next"
    /\ UNCHANGED <<clock, nowLocal, nextPollTimeout, tLooper, mThread, promise, htMutex,
                   mWorkerHandler, upc, hist>>
    /\ UNCHANGED <<lvars, released, dtor>>

\* Looper::loop runs msg.callback(), which throws
Dispatch_faultyTask ==
    /\ pc = "dispatch"
    /\ cur.callback = "throw"
    /\ Invoke("callback")
    /\ cur' = NoMsg
    /\ pc' = AfterDispatch(TRUE)
    /\ UNCHANGED <<clock, qvars, nowLocal, nextPollTimeout, tLooper, htvars, upc,
                   hist, lvars, released, dtor>>

\* Mutant: Looper::loop calls dispatchMessage on every message that has a
\* target, whether or not it carries a callback.
Dispatch_message_always ==
    /\ pc = "dispatch"
    /\ cur.target # NullHandler
    /\ Invoke("handleMessage")
    /\ cur' = NoMsg
    /\ pc' = AfterDispatch(HandleMessageThrows(cur))
    /\ UNCHANGED <<clock, qvars, nowLocal, nextPollTimeout, tLooper, htvars, upc,
                   hist, lvars, released, dtor>>

\* Looper::loop runs msg.target->dispatchMessage(msg), that is handleMessage;
\* msg.target is a std::shared_ptr<Handler>, which keeps the Handler alive
Dispatch_message ==
    /\ pc = "dispatch"
    /\ cur.callback = NoCallback
    /\ cur.target # NullHandler
    /\ Invoke("handleMessage")
    /\ cur' = NoMsg
    /\ pc' = AfterDispatch(HandleMessageThrows(cur))
    /\ UNCHANGED <<clock, qvars, nowLocal, nextPollTimeout, tLooper, htvars, upc,
                   hist, lvars, released, dtor>>

\* Looper::loop: a message with neither target nor callback is logged and dropped
Dispatch_discard ==
    /\ pc = "dispatch"
    /\ cur.callback = NoCallback
    /\ cur.target = NullHandler
    /\ Invoke("none")
    /\ cur' = NoMsg
    /\ pc' = "next"
    /\ UNCHANGED <<clock, qvars, nowLocal, nextPollTimeout, tLooper, htvars, upc,
                   hist, lvars, released, dtor>>

WorkerStep ==
    \/ Run_prepare \/ Run_publish \/ Loop_enter
    \/ Next_lock \/ Next_quit \/ Next_pop \/ Next_wait \/ Next_wake
    \/ Dispatch_task \/ Dispatch_terminal

\* the monotonic clock advances
Tick ==
    /\ clock < MaxTime
    /\ clock' = clock + 1
    /\ UNCHANGED <<qvars, wvars, tLooper, htvars, upc, hist>>
    /\ UNCHANGED <<lvars, dvars>>

\* ---------------------------------------------------- HandlerThread, by a user

\* history: a public getLooper call returns l
RecordGetLooper(wasJoinable, l) ==
    /\ glLast' = [called |-> TRUE, joinable |-> wasJoinable, val |-> l]
    /\ glFirst' = IF glFirst = NullLooper THEN l ELSE glFirst

\* Mutant: getLooper without its `if (!mThread.joinable()) return nullptr`.
HT_getLooper_unchecked(u) ==
    /\ upc[u] = "idle"
    /\ htMutex = NoThread
    /\ IF MustWaitForFuture(mLooper, promise)
       THEN /\ htMutex' = u
            /\ upc' = [upc EXCEPT ![u] = "getLooper"]
            /\ UNCHANGED <<mLooper, glLast, glFirst>>
       ELSE /\ mLooper' = LooperAfterGet(mLooper, promise)
            /\ RecordGetLooper(mThread = "joinable", mLooper')
            /\ UNCHANGED <<htMutex, upc>>
    /\ UNCHANGED <<clock, qvars, wvars, tLooper, mThread, promise, mWorkerHandler,
                   posted, dispatched, lastRet>>
    /\ UNCHANGED <<lvars, dvars>>

\* HandlerThread::getLooper: returns at once, or blocks in mLooperFuture.get()
\* holding HandlerThread::mMutex
HT_getLooper(u) ==
    /\ upc[u] = "idle"
    /\ IF mThread # "joinable"
       THEN /\ RecordGetLooper(FALSE, NullLooper)
            /\ UNCHANGED <<mLooper, htMutex, upc>>
       ELSE /\ htMutex = NoThread
            /\ IF MustWaitForFuture(mLooper, promise)
               THEN /\ htMutex' = u
                    /\ upc' = [upc EXCEPT ![u] = "getLooper"]
                    /\ UNCHANGED <<mLooper, glLast, glFirst>>
               ELSE /\ mLooper' = LooperAfterGet(mLooper, promise)
                    /\ RecordGetLooper(TRUE, mLooper')
                    /\ UNCHANGED <<htMutex, upc>>
    /\ UNCHANGED <<clock, qvars, wvars, tLooper, mThread, promise, mWorkerHandler,
                   posted, dispatched, lastRet>>
    /\ UNCHANGED <<lvars, dvars>>

\* HandlerThread::getLooper: mLooperFuture.get() returns
HT_getLooperResume(u) ==
    /\ upc[u] = "getLooper"
    /\ ~MustWaitForFuture(mLooper, promise)
    /\ mLooper' = LooperAfterGet(mLooper, promise)
    /\ RecordGetLooper(TRUE, mLooper')
    /\ htMutex' = NoThread
    /\ upc' = [upc EXCEPT ![u] = "idle"]
    /\ UNCHANGED <<clock, qvars, wvars, tLooper, mThread, promise, mWorkerHandler,
                   posted, dispatched, lastRet>>
    /\ UNCHANGED <<lvars, dvars>>

\* HandlerThread::quit, after its getLooper() has returned l
QuitWith(l) ==
    IF l # NullLooper
    THEN /\ qMutex = NoThread
         /\ QuitQueue
         /\ lastRet' = [op |-> "quit", val |-> TRUE]
    ELSE /\ UNCHANGED <<mMessages, mQuitting, cvNotified>>
         /\ lastRet' = [op |-> "quit", val |-> FALSE]

\* HandlerThread::quit
HT_quit(u) ==
    /\ upc[u] = "idle"
    /\ IF mThread # "joinable"
       THEN /\ QuitWith(NullLooper)
            /\ UNCHANGED <<mLooper, htMutex, upc>>
       ELSE /\ htMutex = NoThread
            /\ IF MustWaitForFuture(mLooper, promise)
               THEN /\ htMutex' = u
                    /\ upc' = [upc EXCEPT ![u] = "quit"]
                    /\ UNCHANGED <<mMessages, mQuitting, cvNotified, mLooper, lastRet>>
               ELSE /\ mLooper' = LooperAfterGet(mLooper, promise)
                    /\ QuitWith(mLooper')
                    /\ UNCHANGED <<htMutex, upc>>
    /\ UNCHANGED <<clock, qMutex, wvars, tLooper, mThread, promise, mWorkerHandler,
                   posted, dispatched, glLast, glFirst>>
    /\ UNCHANGED <<lvars, dvars>>

\* HandlerThread::quit: its getLooper() returns, then looper->quit()
HT_quitResume(u) ==
    /\ upc[u] = "quit"
    /\ ~MustWaitForFuture(mLooper, promise)
    /\ mLooper' = LooperAfterGet(mLooper, promise)
    /\ QuitWith(mLooper')
    /\ htMutex' = NoThread
    /\ upc' = [upc EXCEPT ![u] = "idle"]
    /\ UNCHANGED <<clock, qMutex, wvars, tLooper, mThread, promise, mWorkerHandler,
                   posted, dispatched, glLast, glFirst>>
    /\ UNCHANGED <<lvars, dvars>>

\* HandlerThread::join on a joinable thread: blocks in mThread.join()
HT_join(u) ==
    /\ upc[u] = "idle"
    /\ mThread = "joinable"
    /\ \A v \in Users : upc[v] # "join"
    /\ upc' = [upc EXCEPT ![u] = "join"]
    /\ UNCHANGED <<clock, qvars, wvars, tLooper, htvars, hist>>
    /\ UNCHANGED <<lvars, dvars>>

\* mThread.join() returns once run() has returned
HT_joinReturn(u) ==
    /\ upc[u] = "join"
    /\ pc = "exited"
    /\ mThread' = "joined"
    /\ upc' = [upc EXCEPT ![u] = "idle"]
    /\ UNCHANGED <<clock, qvars, wvars, tLooper, mLooper, promise, htMutex,
                   mWorkerHandler, hist>>
    /\ UNCHANGED <<lvars, dvars>>

\* ----------------------------------------------------- WorkerThread, by a user

\* WorkerThread::start, first call: HandlerThread::start() spawns run(), then
\* getLooper() blocks until the publication
WT_start(u) ==
    /\ upc[u] = "idle"
    /\ mThread = "unstarted"
    /\ mThread' = "joinable"
    /\ pc' = "prepare"
    /\ htMutex = NoThread
    /\ IF MustWaitForFuture(mLooper, promise)
       THEN /\ htMutex' = u
            /\ upc' = [upc EXCEPT ![u] = "start"]
            /\ UNCHANGED <<mLooper, mWorkerHandler>>
       ELSE /\ mLooper' = LooperAfterGet(mLooper, promise)
            /\ mWorkerHandler' = IF mLooper' # NullLooper THEN TheWorkerHandler
                                 ELSE NullHandler
            /\ UNCHANGED <<htMutex, upc>>
    /\ UNCHANGED <<clock, qvars, cur, nowLocal, nextPollTimeout, tLooper, promise, hist>>
    /\ UNCHANGED <<lvars, dvars>>

\* WorkerThread::start: getLooper() returns; the WorkerHandler is created
WT_startResume(u) ==
    /\ upc[u] = "start"
    /\ ~MustWaitForFuture(mLooper, promise)
    /\ mLooper' = LooperAfterGet(mLooper, promise)
    /\ mWorkerHandler' = IF mLooper' # NullLooper THEN TheWorkerHandler ELSE NullHandler
    /\ htMutex' = NoThread
    /\ upc' = [upc EXCEPT ![u] = "idle"]
    /\ UNCHANGED <<clock, qvars, wvars, tLooper, mThread, promise, hist>>
    /\ UNCHANGED <<lvars, dvars>>

\* Mutant: post / postDelayed / finish without their `if (!mWorkerHandler)
\* return false`.
WorkerPost_unchecked(op, cb, when) ==
    /\ qMutex = NoThread
    /\ EnqueueMessage(op, cb, mWorkerHandler, when)

\* WorkerThread::post / postDelayed / finish: the call on mWorkerHandler, which
\* is Handler::postAtTime(r, when) and so MessageQueue::enqueueMessage
WorkerPost(op, cb, when) ==
    IF mWorkerHandler = NullHandler
    THEN /\ lastRet' = [op |-> op, val |-> FALSE]
         /\ UNCHANGED <<mMessages, cvNotified, posted>>
    ELSE /\ qMutex = NoThread
         /\ EnqueueMessage(op, cb, mWorkerHandler, when)

\* WorkerThread::post
WT_post(u) ==
    /\ upc[u] = "idle"
    /\ WorkerPost("post", "task", clock)
    /\ UNCHANGED <<clock, mQuitting, qMutex, wvars, tLooper, htvars, upc,
                   dispatched, glLast, glFirst>>
    /\ UNCHANGED <<lvars, dvars>>

\* WorkerThread::postDelayed
WT_postDelayed(u, d) ==
    /\ upc[u] = "idle"
    /\ clock + ClampDelay(d) <= MaxTime
    /\ WorkerPost("postDelayed", "task", clock + ClampDelay(d))
    /\ UNCHANGED <<clock, mQuitting, qMutex, wvars, tLooper, htvars, upc,
                   dispatched, glLast, glFirst>>
    /\ UNCHANGED <<lvars, dvars>>

\* WorkerThread::finish
WT_finish(u) ==
    /\ upc[u] = "idle"
    /\ WorkerPost("finish", "quit", clock)
    /\ UNCHANGED <<clock, mQuitting, qMutex, wvars, tLooper, htvars, upc,
                   dispatched, glLast, glFirst>>
    /\ UNCHANGED <<lvars, dvars>>

\* WorkerThread::finishNow: Looper::quit() on the worker's Looper
WT_finishNow(u) ==
    /\ upc[u] = "idle"
    /\ IF mWorkerHandler = NullHandler
       THEN /\ lastRet' = [op |-> "finishNow", val |-> FALSE]
            /\ UNCHANGED <<mMessages, mQuitting, cvNotified>>
       ELSE /\ qMutex = NoThread
            /\ QuitQueue
            /\ lastRet' = [op |-> "finishNow", val |-> TRUE]
    /\ UNCHANGED <<clock, qMutex, wvars, tLooper, htvars, upc,
                   posted, dispatched, glLast, glFirst>>
    /\ UNCHANGED <<lvars, dvars>>

\* HandlerThread::start, first call, on its own (a plain HandlerThread, or the
\* base-class start of a WorkerThread): spawns run()
HT_start(u) ==
    /\ upc[u] = "idle"
    /\ mThread = "unstarted"
    /\ mThread' = "joinable"
    /\ pc' = "prepare"
    /\ UNCHANGED <<clock, qvars, cur, nowLocal, nextPollTimeout, tLooper, mLooper,
                   promise, htMutex, mWorkerHandler, upc, hist>>
    /\ UNCHANGED <<lvars, dvars>>

\* ------------------------------------------------------- Handler, by a user

\* A Handler h constructed on the Looper that getLooper() returned:
\* sendMessageAtTime / postAtTime call mQueue->enqueueMessage
HandlerEnqueue(op, what, cb, h, when) ==
    /\ mLooper # NullLooper
    /\ qMutex = NoThread
    /\ EnqueueMsg(op, what, cb, h, when)

\* what a Handler send / post call leaves alone
HandlerFrame ==
    UNCHANGED <<clock, mQuitting, qMutex, wvars, tLooper, htvars, upc,
                dispatched, glLast, glFirst, lvars, dvars>>

\* Handler::sendMessage
H_sendMessage(u, h, what) ==
    /\ upc[u] = "idle"
    /\ HandlerEnqueue("sendMessage", what, NoCallback, h, clock)
    /\ HandlerFrame

\* Handler::sendMessageDelayed
H_sendMessageDelayed(u, h, what, d) ==
    /\ upc[u] = "idle"
    /\ clock + ClampDelay(d) <= MaxTime
    /\ HandlerEnqueue("sendMessageDelayed", what, NoCallback, h, clock + ClampDelay(d))
    /\ HandlerFrame

\* Handler::sendMessageAtTime
H_sendMessageAtTime(u, h, what, t) ==
    /\ upc[u] = "idle"
    /\ HandlerEnqueue("sendMessageAtTime", what, NoCallback, h, t)
    /\ HandlerFrame

\* Handler::post
H_post(u, h, cb) ==
    /\ upc[u] = "idle"
    /\ HandlerEnqueue("post", 0, cb, h, clock)
    /\ HandlerFrame

\* Handler::postDelayed
H_postDelayed(u, h, cb, d) ==
    /\ upc[u] = "idle"
    /\ clock + ClampDelay(d) <= MaxTime
    /\ HandlerEnqueue("postDelayed", 0, cb, h, clock + ClampDelay(d))
    /\ HandlerFrame

\* Handler::postAtTime
H_postAtTime(u, h, cb, t) ==
    /\ upc[u] = "idle"
    /\ HandlerEnqueue("postAtTime", 0, cb, h, t)
    /\ HandlerFrame

\* Handler::removeMessages, that is MessageQueue::removeMessages under mMutex
H_removeMessages(u, h, what) ==
    /\ upc[u] = "idle"
    /\ mLooper # NullLooper
    /\ qMutex = NoThread
    /\ mMessages' = IF mQuitting THEN mMessages
                    ELSE RemoveMessagesFrom(mMessages, h, what)
    /\ UNCHANGED <<clock, mQuitting, qMutex, cvNotified, wvars, tLooper, htvars, upc,
                   hist, lvars, dvars>>

\* Handler::removeCallbacks, that is MessageQueue::removeCallbacks under mMutex
H_removeCallbacks(u, h) ==
    /\ upc[u] = "idle"
    /\ mLooper # NullLooper
    /\ qMutex = NoThread
    /\ mMessages' = IF mQuitting THEN mMessages
                    ELSE RemoveCallbacksFrom(mMessages, h)
    /\ UNCHANGED <<clock, mQuitting, qMutex, cvNotified, wvars, tLooper, htvars, upc,
                   hist, lvars, dvars>>

\* ------------------------------------------- Looper, on a user's own thread

\* Looper::prepare on user thread u
L_prepare(u) ==
    /\ upc[u] = "idle"
    /\ IF PrepareRejected(tLooper[u])
       THEN /\ lastErr' = [op |-> "prepare", thread |-> u, hadLooper |-> TRUE,
                           err |-> "AlreadyPrepared"]
            /\ UNCHANGED <<tLooper, uQuitting, nextGen>>
       ELSE /\ nextGen <= MaxLoopers
            /\ tLooper' = [tLooper EXCEPT ![u] = [mThreadId |-> u, gen |-> nextGen]]
            /\ uQuitting' = [uQuitting EXCEPT ![u] = FALSE]
            /\ nextGen' = nextGen + 1
            /\ lastErr' = [op |-> "prepare", thread |-> u,
                           hadLooper |-> tLooper[u] # NullLooper, err |-> "none"]
    /\ UNCHANGED <<clock, qvars, wvars, htvars, upc, hist, dvars>>

\* Looper::loop on user thread u: the two checks, then the thread pumps the
\* queue of its own Looper (no Handler is attached to it)
L_loop(u) ==
    /\ upc[u] = "idle"
    /\ lastErr' = [op |-> "loop", thread |-> u, hadLooper |-> tLooper[u] # NullLooper,
                   err |-> LoopError(tLooper[u], u)]
    /\ upc' = IF LoopError(tLooper[u], u) = "none"
              THEN [upc EXCEPT ![u] = "loop"] ELSE upc
    /\ UNCHANGED <<clock, qvars, wvars, tLooper, htvars, hist, uQuitting, nextGen, dvars>>

\* Mutant: Looper::quit also resets the thread-local slot of the owner.
L_quit_clears(u) ==
    /\ tLooper[u] # NullLooper
    /\ ~uQuitting[u]
    /\ uQuitting' = [uQuitting EXCEPT ![u] = TRUE]
    /\ tLooper' = [tLooper EXCEPT ![u] = NullLooper]
    /\ UNCHANGED <<clock, qvars, wvars, htvars, upc, hist, nextGen, lastErr, dvars>>

\* Looper::quit on the Looper that user thread u installed, by any thread
\* holding its handle
L_quit(u) ==
    /\ tLooper[u] # NullLooper
    /\ ~uQuitting[u]
    /\ uQuitting' = [uQuitting EXCEPT ![u] = TRUE]
    /\ UNCHANGED <<clock, qvars, wvars, tLooper, htvars, upc, hist, nextGen, lastErr, dvars>>

\* Mutant: loop() returns without its `tLooper = nullptr`.
L_loopReturn_keep(u) ==
    /\ upc[u] = "loop"
    /\ uQuitting[u]
    /\ upc' = [upc EXCEPT ![u] = "idle"]
    /\ UNCHANGED <<clock, qvars, wvars, tLooper, htvars, hist, uQuitting, nextGen,
                   lastErr, dvars>>

\* Looper::loop on user thread u: next() returns nullopt, the thread-local slot
\* is cleared and loop() returns
L_loopReturn(u) ==
    /\ upc[u] = "loop"
    /\ uQuitting[u]
    /\ tLooper' = [tLooper EXCEPT ![u] = NullLooper]
    /\ upc' = [upc EXCEPT ![u] = "idle"]
    /\ UNCHANGED <<clock, qvars, wvars, htvars, hist, uQuitting, nextGen, lastErr, dvars>>

\* ------------------------------------------- a failing start of the worker

\* HandlerThread::run: Looper::prepare() throws (std::make_shared<Looper> fails);
\* catch (...) stores the exception in mLooperPromise and run() returns
Run_prepareFails ==
    /\ pc = "prepare"
    /\ promise' = [state |-> "exception", value |-> NullLooper]
    /\ pc' = "exited"
    /\ UNCHANGED <<clock, qvars, cur, nowLocal, nextPollTimeout, tLooper, mThread, mLooper,
                   htMutex, mWorkerHandler, upc, hist, lvars, dvars>>

\* ------------------------------------------------ Message and queue, by a user

\* looper->getQueue()->enqueueMessage(std::move(msg), steady_clock::now()) of a
\* Message built by the user without a target
Q_enqueueMessage(u, what, cb) ==
    /\ upc[u] = "idle"
    /\ HandlerEnqueue("enqueueMessage", what, cb, NullHandler, clock)
    /\ HandlerFrame

\* the owner of Handler h drops its last std::shared_ptr<Handler>; the copies
\* held in Message::target of the pending messages are not affected
H_release(u, h) ==
    /\ upc[u] = "idle"
    /\ mLooper # NullLooper
    /\ h \notin released
    /\ released' = released \cup {h}
    /\ UNCHANGED <<clock, qvars, wvars, tLooper, htvars, upc, hist, lvars, invoked, dtor>>

\* Mutant: sendToTarget without its `if (!target) return false`.
M_sendToTarget_unchecked(u, target, what, cb) ==
    /\ upc[u] = "idle"
    /\ HandlerEnqueue("sendToTarget", what, cb, target, clock)
    /\ HandlerFrame

\* Message::sendToTarget on a Message with the given target, code and callback:
\* target->sendMessageAtTime(std::move(*this), steady_clock::now())
M_sendToTarget(u, target, what, cb) ==
    /\ upc[u] = "idle"
    /\ IF target = NullHandler
       THEN /\ lastRet' = [op |-> "sendToTarget", val |-> FALSE]
            /\ UNCHANGED <<mMessages, cvNotified, posted>>
       ELSE HandlerEnqueue("sendToTarget", what, cb, target, clock)
    /\ HandlerFrame

\* ------------------------------------------------------- ~WorkerThread

\* the WorkerThread is in use: started, and neither finished nor quit
Running ==
    /\ mThread = "joinable"
    /\ mWorkerHandler # NullHandler
    /\ ~mQuitting
    /\ \A s \in 1..Len(posted) : posted[s].callback # "quit"

\* Mutant: the destructor joins without calling finish().
WT_destroy_joinOnly(u) ==
    /\ dtor.phase = "none"
    /\ \A v \in Users : upc[v] = "idle"
    /\ dtor' = [phase |-> IF mThread = "joinable" THEN "join" ELSE "done",
                running |-> Running, at |-> clock]
    /\ upc' = IF mThread = "joinable" THEN [upc EXCEPT ![u] = "destroy"] ELSE upc
    /\ UNCHANGED <<clock, qvars, wvars, tLooper, htvars, hist, lvars, invoked, released>>

\* ~WorkerThread, run by the thread that owns the object while no other call is
\* in progress: finish(), then join() blocks in mThread.join() if the thread
\* is joinable
WT_destroy(u) ==
    /\ dtor.phase = "none"
    /\ \A v \in Users : upc[v] = "idle"
    /\ WorkerPost("finish", "quit", clock)
    /\ dtor' = [phase |-> IF mThread = "joinable" THEN "join" ELSE "done",
                running |-> Running, at |-> clock]
    /\ upc' = IF mThread = "joinable" THEN [upc EXCEPT ![u] = "destroy"] ELSE upc
    /\ UNCHANGED <<clock, mQuitting, qMutex, wvars, tLooper, htvars,
                   dispatched, glLast, glFirst, lvars, invoked, released>>

\* ~WorkerThread: mThread.join() returns once run() has returned; then
\* ~HandlerThread finds the thread not joinable and does nothing
WT_destroyJoined(u) ==
    /\ dtor.phase = "join"
    /\ upc[u] = "destroy"
    /\ pc = "exited"
    /\ mThread' = "joined"
    /\ dtor' = [dtor EXCEPT !.phase = "done"]
    /\ upc' = [upc EXCEPT ![u] = "idle"]
    /\ UNCHANGED <<clock, qvars, wvars, tLooper, mLooper, promise, htMutex,
                   mWorkerHandler, hist, lvars, invoked, released>>

\* ------------------------------------- the WorkerThread's Handler, handed out

\* WorkerThread::getHandler()->removeCallbacks(), by a user: getHandler is
\* public and returns mWorkerHandler, the Handler that post, postDelayed and
\* finish post to
WT_removeCallbacks(u) ==
    /\ mWorkerHandler # NullHandler
    /\ H_removeCallbacks(u, mWorkerHandler)

\* WorkerThread::getHandler()->removeMessages(what), by a user
WT_removeMessages(u, what) ==
    /\ mWorkerHandler # NullHandler
    /\ H_removeMessages(u, mWorkerHandler, what)

\* ------------------------------------- a Handler bound to the current thread

\* Handler::Handler() on user thread u binds to Looper::myLooper() and throws
\* if there is none; a send through it is MessageQueue::enqueueMessage on the
\* queue of that Looper (whose pending messages the model does not keep)
L_handlerSend(u) ==
    /\ upc[u] = "idle"
    /\ IF tLooper[u] = NullLooper
       THEN /\ lastErr' = [op |-> "Handler", thread |-> u, hadLooper |-> FALSE,
                           err |-> "NoLooper"]
            /\ UNCHANGED lastRet
       ELSE /\ lastRet' = [op |-> "sendMessage", val |-> ~EnqueueRejected(uQuitting[u])]
            /\ UNCHANGED lastErr
    /\ UNCHANGED <<clock, qvars, wvars, tLooper, htvars, upc, posted, dispatched,
                   glLast, glFirst, uQuitting, nextGen, dvars>>

\* ------------------------------------- a Message that already names a target

\* Mutant: sendMessageAtTime keeps a target the message already carries.
TargetAfterSend_keep(h, prior) == IF prior # NullHandler THEN prior ELSE h

\* Handler::sendMessageAtTime on Handler h, of a message whose target field
\* holds `prior`: msg.target = shared_from_this()
TargetAfterSend(h, prior) == h

\* Handler::sendMessage on Handler h, of a Message the user built or obtained
\* with target `prior` (none, h itself, or another Handler)
H_sendMessageOf(u, h, prior, what) ==
    /\ upc[u] = "idle"
    /\ HandlerEnqueue("sendMessage", what, NoCallback, TargetAfterSend(h, prior), clock)
    /\ HandlerFrame

\* ------------------------------------- callbacks that call back into the Looper

\* user code: runnables that, while they run, make one call on the Handler
\* they were posted to (post, sendMessage, removeMessages, removeCallbacks) or
\* on its Looper (quit)
InnerOps == {"cb_post", "cb_send", "cb_removeMessages", "cb_removeCallbacks", "cb_quit"}

\* the call such a runnable makes on Handler h, under MessageQueue::mMutex
InnerCall(cb, h) ==
    \/ /\ cb = "cb_post"
       /\ EnqueueMsg("post", 0, "task", h, clock)
       /\ UNCHANGED mQuitting
    \/ /\ cb = "cb_send"
       /\ EnqueueMsg("sendMessage", 0, NoCallback, h, clock)
       /\ UNCHANGED mQuitting
    \/ /\ cb = "cb_removeMessages"
       /\ mMessages' = IF mQuitting THEN mMessages ELSE RemoveMessagesFrom(mMessages, h, 0)
       /\ UNCHANGED <<mQuitting, cvNotified, posted, lastRet>>
    \/ /\ cb = "cb_removeCallbacks"
       /\ mMessages' = IF mQuitting THEN mMessages ELSE RemoveCallbacksFrom(mMessages, h)
       /\ UNCHANGED <<mQuitting, cvNotified, posted, lastRet>>
    \/ /\ cb = "cb_quit"
       /\ QuitQueue
       /\ UNCHANGED <<posted, lastRet>>

\* Mutant: Handler::post runs the runnable at once when it is called on the
\* Looper's own thread, instead of enqueuing it.
Callback_call_inline ==
    /\ pc = "dispatch"
    /\ cur.callback \in InnerOps
    /\ Len(posted) < MaxMsgs
    /\ LET msg == [seq |-> Len(posted) + 1, what |-> 0, target |-> cur.target,
                   callback |-> "task", when |-> clock]
       IN /\ posted' = Append(posted, msg)
          /\ dispatched' = Append(dispatched, msg.seq)
          /\ invoked' = Append(invoked, [seq |-> msg.seq, kind |-> "callback",
                                         userHolds |-> TRUE])
    /\ lastRet' = [op |-> "post", val |-> TRUE]
    /\ pc' = "callback"
    /\ UNCHANGED <<clock, qvars, cur, nowLocal, nextPollTimeout, tLooper, htvars, upc,
                   glLast, glFirst, lvars, released, dtor>>

\* Looper::loop has called msg.callback(), which makes its call on the Looper:
\* the call takes mMutex, which next() released when it returned
Callback_call ==
    /\ pc = "dispatch"
    /\ cur.callback \in InnerOps
    /\ qMutex = NoThread
    /\ InnerCall(cur.callback, cur.target)
    /\ pc' = "callback"
    /\ UNCHANGED <<clock, qMutex, cur, nowLocal, nextPollTimeout, tLooper, htvars, upc,
                   dispatched, glLast, glFirst, lvars, dvars>>

\* msg.callback() returns to Looper::loop
Callback_return ==
    /\ pc = "callback"
    /\ Invoke("callback")
    /\ cur' = NoMsg
    /\ pc' = "next"
    /\ UNCHANGED <<clock, qvars, nowLocal, nextPollTimeout, tLooper, htvars, upc,
                   hist, lvars, released, dtor>>

\* the messages still to come from runnables that will post or send
PendingInner ==
    Cardinality({i \in 1..Len(mMessages) : mMessages[i].callback \in {"cb_post", "cb_send"}})
    + (IF pc = "dispatch" /\ cur.callback \in {"cb_post", "cb_send"} THEN 1 ELSE 0)

\* room is left in the history for a message that adds n messages in all
RoomFor(n) == Len(posted) + PendingInner + n <= MaxMsgs

\* -------------------------------------------------------- specifications

\* The WorkerThread in use: started through WorkerThread::start, then posted
\* to, finished, quit and joined from the user threads.
WorkerUserStep ==
    \E u \in Users :
        \/ WT_start(u) \/ WT_startResume(u)
        \/ WT_post(u)
        \/ (\E d \in -1..MaxDelay : WT_postDelayed(u, d))
        \/ WT_finish(u)
        \/ WT_finishNow(u)
        \/ HT_quit(u)

Next == WorkerStep \/ Next_spuriousWake \/ Tick \/ WorkerUserStep

Spec == Init /\ [][Next]_vars

\* The HandlerThread's start / getLooper / quit / join handshake.
HandlerThreadUserStep ==
    \E u \in Users :
        \/ HT_start(u)
        \/ HT_getLooper(u) \/ HT_getLooperResume(u)
        \/ HT_quit(u) \/ HT_quitResume(u)
        \/ HT_join(u) \/ HT_joinReturn(u)

NextHT == Run_prepare \/ Run_publish \/ Loop_enter \/ Next_lock \/ Next_quit
          \/ Next_wait \/ Next_wake \/ Next_spuriousWake \/ HandlerThreadUserStep

SpecHT == Init /\ [][NextHT]_vars

\* WorkerThread used through start / post / postDelayed / finish / join only.
FinishUserStep ==
    \E u \in Users :
        \/ WT_start(u) \/ WT_startResume(u)
        \/ WT_post(u)
        \/ (\E d \in -1..MaxDelay : WT_postDelayed(u, d))
        \/ WT_finish(u)
        \/ HT_join(u) \/ HT_joinReturn(u)

NextFinish == WorkerStep \/ Next_spuriousWake \/ Tick \/ FinishUserStep

SpecFinish == Init /\ [][NextFinish]_vars

\* The worker thread is scheduled, the clock advances, and a join() whose
\* thread has ended returns.
Fairness ==
    /\ WF_vars(WorkerStep)
    /\ WF_vars(Tick)
    /\ WF_vars(\E u \in Users : HT_joinReturn(u))

FairSpecFinish == SpecFinish /\ Fairness

\* WorkerThread used through start / post / postDelayed / finishNow / join.
NowUserStep ==
    \E u \in Users :
        \/ WT_start(u) \/ WT_startResume(u)
        \/ WT_post(u)
        \/ (\E d \in -1..MaxDelay : WT_postDelayed(u, d))
        \/ WT_finishNow(u)
        \/ HT_join(u) \/ HT_joinReturn(u)

NextNow == Run_prepare \/ Run_publish \/ Loop_enter
           \/ Next_lock \/ Next_quit \/ Next_pop \/ Next_wait \/ Next_wake
           \/ Dispatch_task \/ Next_spuriousWake \/ Tick \/ NowUserStep

SpecNow == Init /\ [][NextNow]_vars

FairSpecNow == SpecNow /\ Fairness

\* The worker thread is scheduled and the clock advances.
WorkerFairness == WF_vars(WorkerStep) /\ WF_vars(Tick)

FairSpec == Spec /\ WorkerFairness

\* Handlers on the Looper of a plain HandlerThread: messages and runnables are
\* sent, removed and dispatched while the clock stands still, so that delayed
\* ones stay pending; the Looper may be quit.
HandlerUserStep ==
    \E u \in Users :
        \/ HT_start(u)
        \/ HT_getLooper(u) \/ HT_getLooperResume(u)
        \/ HT_quit(u) \/ HT_quitResume(u)
        \/ \E h \in Handlers :
              \/ \E w \in Whats :
                    \/ H_sendMessage(u, h, w)
                    \/ H_sendMessageDelayed(u, h, w, MaxDelay)
                    \/ H_removeMessages(u, h, w)
              \/ H_post(u, h, "task")
              \/ H_postDelayed(u, h, "task", MaxDelay)
              \/ H_removeCallbacks(u, h)

NextHandler == Run_prepare \/ Run_publish \/ Loop_enter
               \/ Next_lock \/ Next_quit \/ Next_pop \/ Next_wait \/ Next_wake
               \/ Dispatch_task \/ Dispatch_message \/ HandlerUserStep

SpecHandler == Init /\ [][NextHandler]_vars

\* The six send / post calls of one Handler, with every delay and time; the
\* Looper may be quit.
SendUserStep ==
    \E u \in Users :
        \/ HT_start(u)
        \/ HT_getLooper(u) \/ HT_getLooperResume(u)
        \/ HT_quit(u) \/ HT_quitResume(u)
        \/ \E w \in Whats :
              \/ H_sendMessage(u, "h1", w)
              \/ (\E d \in -1..MaxDelay : H_sendMessageDelayed(u, "h1", w, d))
              \/ (\E t \in 0..MaxTime : H_sendMessageAtTime(u, "h1", w, t))
        \/ H_post(u, "h1", "task")
        \/ (\E d \in -1..MaxDelay : H_postDelayed(u, "h1", "task", d))
        \/ (\E t \in 0..MaxTime : H_postAtTime(u, "h1", "task", t))

NextSend == Run_prepare \/ Run_publish \/ Loop_enter
            \/ Next_lock \/ Next_quit \/ Next_pop \/ Next_wait \/ Next_wake
            \/ Dispatch_task \/ Dispatch_message \/ SendUserStep

SpecSend == Init /\ [][NextSend]_vars

\* One Handler whose runnables and handleMessage may throw; nothing is removed
\* and the Looper is not quit.
FaultUserStep ==
    \E u \in Users :
        \/ HT_start(u)
        \/ HT_getLooper(u) \/ HT_getLooperResume(u)
        \/ (\E w \in Whats : H_sendMessage(u, "h1", w))
        \/ (\E cb \in {"task", "throw"} :
              \/ H_post(u, "h1", cb)
              \/ (\E d \in -1..MaxDelay : H_postDelayed(u, "h1", cb, d)))

FaultWorkerStep ==
    \/ Run_prepare \/ Run_publish \/ Loop_enter
    \/ Next_lock \/ Next_pop \/ Next_wait \/ Next_wake
    \/ Dispatch_task \/ Dispatch_faultyTask \/ Dispatch_message

NextFault == FaultWorkerStep \/ Next_spuriousWake \/ Tick \/ FaultUserStep

SpecFault == Init /\ [][NextFault]_vars

FairSpecFault == SpecFault /\ WF_vars(FaultWorkerStep) /\ WF_vars(Tick)

\* User threads preparing, running and quitting Loopers of their own next to
\* the HandlerThread's worker thread.
LooperUserStep ==
    \E u \in Users :
        \/ HT_start(u)
        \/ L_prepare(u)
        \/ L_loop(u)
        \/ L_quit(u)
        \/ L_loopReturn(u)

NextLooper == Run_prepare \/ Run_publish \/ Loop_enter
              \/ Next_lock \/ Next_wait \/ Next_spuriousWake \/ LooperUserStep

SpecLooper == Init /\ [][NextLooper]_vars

\* The HandlerThread handshake when the worker's Looper::prepare may fail.
NextPublish == Run_prepare \/ Run_prepareFails \/ Run_publish \/ Loop_enter
               \/ Next_lock \/ Next_quit \/ Next_wait \/ Next_wake \/ Next_spuriousWake
               \/ HandlerThreadUserStep

SpecPublish == Init /\ [][NextPublish]_vars

\* Messages of every shape reach Looper::loop: sent through a Handler, posted
\* as runnables, or put into the queue without a target; the owners may drop
\* their Handlers, after which they make no call on them.
DispatchUserStep ==
    \E u \in Users :
        \/ HT_start(u)
        \/ HT_getLooper(u) \/ HT_getLooperResume(u)
        \/ \E h \in Handlers \ released :
              \/ (\E w \in Whats : H_sendMessage(u, h, w))
              \/ H_post(u, h, "task")
              \/ H_release(u, h)
        \/ \E cb \in {NoCallback, "task"} : Q_enqueueMessage(u, 0, cb)

NextDispatch == Run_prepare \/ Run_publish \/ Loop_enter
                \/ Next_lock \/ Next_pop \/ Next_wait \/ Next_wake
                \/ Dispatch_task \/ Dispatch_message \/ Dispatch_discard
                \/ DispatchUserStep

SpecDispatch == Init /\ [][NextDispatch]_vars

\* Messages sent with Message::sendToTarget, with and without a target, while
\* the clock advances; the Looper may be quit.
TargetUserStep ==
    \E u \in Users :
        \/ HT_start(u)
        \/ HT_getLooper(u) \/ HT_getLooperResume(u)
        \/ HT_quit(u) \/ HT_quitResume(u)
        \/ \E t \in {NullHandler, "h1"}, w \in Whats :
              M_sendToTarget(u, t, w, NoCallback)

NextTarget == Run_prepare \/ Run_publish \/ Loop_enter
              \/ Next_lock \/ Next_quit \/ Next_pop \/ Next_wait \/ Next_wake
              \/ Dispatch_message \/ Tick \/ TargetUserStep

SpecTarget == Init /\ [][NextTarget]_vars

\* The WorkerThread in use until its owner destroys it; no call is made on the
\* object once the destructor has been entered.
DestroyUserStep ==
    \E u \in Users :
        \/ /\ dtor.phase = "none"
           /\ \/ WT_start(u) \/ WT_startResume(u)
              \/ WT_post(u)
              \/ WT_postDelayed(u, MaxDelay)
              \/ WT_finish(u)
              \/ HT_quit(u)
              \/ HT_join(u) \/ HT_joinReturn(u)
        \/ WT_destroy(u)
        \/ WT_destroyJoined(u)

NextDestroy == WorkerStep \/ Next_spuriousWake \/ Tick \/ DestroyUserStep

SpecDestroy == Init /\ [][NextDestroy]_vars

\* The worker thread is scheduled, the clock advances, and the destructor's
\* join() returns once the thread has ended.
FairSpecDestroy ==
    /\ SpecDestroy
    /\ WF_vars(WorkerStep)
    /\ WF_vars(Tick)
    /\ WF_vars(\E u \in Users : WT_destroyJoined(u))

\* Runnables that post a runnable to their own Handler while they run, next
\* to runnables posted by the users.
PosterUserStep ==
    \E u \in Users :
        \/ HT_start(u)
        \/ HT_getLooper(u) \/ HT_getLooperResume(u)
        \/ (RoomFor(2) /\ H_post(u, "h1", "cb_post"))
        \/ (RoomFor(2) /\ H_postDelayed(u, "h1", "cb_post", MaxDelay))
        \/ (RoomFor(1) /\ H_post(u, "h1", "task"))

PosterWorkerStep ==
    \/ Run_prepare \/ Run_publish \/ Loop_enter
    \/ Next_lock \/ Next_pop \/ Next_wait \/ Next_wake
    \/ Callback_call \/ Callback_return \/ Dispatch_task

NextPoster == PosterWorkerStep \/ Next_spuriousWake \/ Tick \/ PosterUserStep

SpecPoster == Init /\ [][NextPoster]_vars

FairSpecPoster == SpecPoster /\ WF_vars(PosterWorkerStep) /\ WF_vars(Tick)

\* Runnables that call post, sendMessage, removeMessages, removeCallbacks or
\* quit on their own Looper while they run, next to messages sent by users.
InnerUserStep ==
    \E u \in Users :
        \/ HT_start(u)
        \/ HT_getLooper(u) \/ HT_getLooperResume(u)
        \/ (\E cb \in {"cb_post", "cb_send"} : RoomFor(2) /\ H_post(u, "h1", cb))
        \/ (\E cb \in InnerOps \ {"cb_post", "cb_send"} : RoomFor(1) /\ H_post(u, "h1", cb))
        \/ (RoomFor(1) /\ H_sendMessage(u, "h1", 0))

InnerWorkerStep ==
    \/ Run_prepare \/ Run_publish \/ Loop_enter
    \/ Next_lock \/ Next_quit \/ Next_pop \/ Next_wait \/ Next_wake
    \/ Callback_call \/ Callback_return \/ Dispatch_task \/ Dispatch_message

NextInner == InnerWorkerStep \/ InnerUserStep

SpecInner == Init /\ [][NextInner]_vars

FairSpecInner == SpecInner /\ WF_vars(InnerWorkerStep)

\* Two Handlers on one Looper; the messages sent through one may name the
\* other, or none, as their target beforehand.
CarryUserStep ==
    \E u \in Users :
        \/ HT_start(u)
        \/ HT_getLooper(u) \/ HT_getLooperResume(u)
        \/ \E h \in Handlers :
              \/ (\E prior \in Handlers \cup {NullHandler}, w \in Whats :
                     H_sendMessageOf(u, h, prior, w))
              \/ H_post(u, h, "task")
              \/ (\E w \in Whats : H_removeMessages(u, h, w))

NextCarry == Run_prepare \/ Run_publish \/ Loop_enter
             \/ Next_lock \/ Next_pop \/ Next_wait \/ Next_wake
             \/ Dispatch_task \/ Dispatch_message \/ CarryUserStep

SpecCarry == Init /\ [][NextCarry]_vars

\* User threads preparing, quitting and running Loopers of their own and
\* sending through Handlers bound to them.
BindUserStep ==
    \E u \in Users :
        \/ L_prepare(u)
        \/ L_loop(u)
        \/ L_quit(u)
        \/ L_loopReturn(u)
        \/ L_handlerSend(u)

NextBind == BindUserStep

SpecBind == Init /\ [][NextBind]_vars

\* WorkerThread used through start / post / postDelayed / finish / join and
\* through the Handler that getHandler() hands out.
RemoveUserStep ==
    \E u \in Users :
        \/ WT_start(u) \/ WT_startResume(u)
        \/ WT_post(u)
        \/ WT_postDelayed(u, MaxDelay)
        \/ WT_finish(u)
        \/ WT_removeCallbacks(u)
        \/ (\E w \in Whats : WT_removeMessages(u, w))
        \/ HT_join(u) \/ HT_joinReturn(u)

NextRemove == WorkerStep \/ Next_spuriousWake \/ Tick \/ RemoveUserStep

SpecRemove == Init /\ [][NextRemove]_vars

FairSpecRemove == SpecRemove /\ Fairness

\* ------------------------------------------------------------------ claims

\* the accepted message with enqueue index s
Msg(s) == posted[s]
Terminals == {s \in 1..Len(posted) : posted[s].callback = "quit"}
FirstTerminal == CHOOSE s \in Terminals : \A t \in Terminals : s <= t
\* position of message s in the dispatch history (0 if not dispatched)
DispatchIndex(s) ==
    IF s \in DispatchedSeqs
    THEN CHOOSE i \in 1..Len(dispatched) : dispatched[i] = s
    ELSE 0

\* C1: messages enqueued with the same deadline are dispatched in the order
\* in which their enqueues took effect.
C1_FifoAtEqualDeadlines ==
    \A i, j \in 1..Len(dispatched) :
        (i < j /\ Msg(dispatched[i]).when = Msg(dispatched[j]).when)
            => dispatched[i] < dispatched[j]

\* C1 witness: three messages with one deadline were all pending together and
\* have all been dispatched.
C1_Witness ==
    /\ Len(dispatched) = 3
    /\ \A s \in 1..3 : Msg(s).when = 1 /\ Msg(s).callback = "task"

\* C2: next() never hands out a message while a message with a smaller
\* deadline is pending in the queue, whatever the enqueue order was.
C2_EarliestDeadlineFirst ==
    [][(pc = "check" /\ pc' = "dispatch")
          => \A k \in 1..Len(mMessages') : cur'.when <= mMessages'[k].when]_vars

\* C2 witness: B (deadline 2) was enqueued first, the consumer went to wait for
\* it, A (deadline 1) was enqueued later and is dispatched first, B still pending.
C2_Witness ==
    /\ Len(posted) = 2
    /\ Msg(1).when = 2 /\ Msg(2).when = 1
    /\ dispatched = <<2>>
    /\ pc = "dispatch"
    /\ Len(mMessages) = 1

\* C3: a message being dispatched has a deadline that the monotonic clock has
\* reached.
C3_DelayFloor == pc = "dispatch" => cur.when <= clock

\* C3 witness: a runnable posted with the largest delay is dispatched exactly at
\* its deadline.
C3_Witness ==
    /\ pc = "dispatch"
    /\ Len(posted) = 1
    /\ lastRet = [op |-> "postDelayed", val |-> TRUE]
    /\ cur.when = MaxDelay
    /\ clock = MaxDelay

EnqueueOps == {"post", "postDelayed", "finish"}

\* C4: once the queue is quitting, it stays quitting and empty, next() hands out
\* no message and returns None, and every enqueue returns false and adds nothing.
C4_QuitDropsPending ==
    [][(mQuitting' => mMessages' = << >>)
       /\ (mQuitting =>
             /\ mQuitting'
             /\ dispatched' = dispatched
             /\ posted' = posted
             /\ ((lastRet' # lastRet /\ lastRet'.op \in EnqueueOps) => ~lastRet'.val)
             /\ (pc = "check" => pc' \in {"check", "exited"}))]_vars

\* C4 witness: the queue was quit with a message pending, the loop has ended, the
\* pending message was never dispatched, and a later post returned false.
C4_Witness ==
    /\ mQuitting
    /\ pc = "exited"
    /\ Terminals = {}
    /\ Len(posted) > Len(dispatched)
    /\ lastRet = [op |-> "post", val |-> FALSE]

\* C6: a runnable posted after an accepted finish(), or posted before it with a
\* deadline later than the terminal runnable's, is never executed.
C6_AfterFinishDropped ==
    \A t \in Terminals : \A s \in 1..Len(posted) :
        (s > t \/ Msg(s).when > Msg(t).when) => s \notin DispatchedSeqs

\* C6 witness: the loop has ended through the terminal runnable; a delayed
\* runnable posted before finish() and a runnable posted after it were accepted
\* and dropped.
C6_Witness ==
    /\ pc = "exited"
    /\ Len(posted) = 3
    /\ Terminals = {2}
    /\ Msg(1).when > Msg(2).when
    /\ dispatched = <<2>>

\* runnables posted before the accepted finish t that are due by t's deadline
DueBefore(t) == {s \in 1..Len(posted) : s < t /\ Msg(s).when <= Msg(t).when}

\* C5 (as amended): after the first accepted finish(), every runnable posted
\* before it with a deadline not later than the terminal runnable's is executed
\* before the terminal runnable and so before the loop quits; the worker thread
\* then ends and join() returns.
C5_FirstFinishDrains ==
    /\ [](Terminals # {} =>
            /\ FirstTerminal \in DispatchedSeqs =>
                 \A s \in DueBefore(FirstTerminal) :
                    /\ s \in DispatchedSeqs
                    /\ DispatchIndex(s) < DispatchIndex(FirstTerminal)
            /\ pc = "exited" => DueBefore(FirstTerminal) \subseteq DispatchedSeqs)
    /\ (Terminals # {}) ~> (pc = "exited")
    /\ \A u \in Users : (Terminals # {} /\ upc[u] = "join") ~> (mThread = "joined")

\* C5 witness: a delayed runnable and an immediate one were posted, finish() was
\* accepted when both were due, all three ran in order and join() has returned.
C5_Witness ==
    /\ Len(posted) = 3
    /\ Terminals = {3}
    /\ Msg(1).when = 1
    /\ dispatched = <<1, 2, 3>>
    /\ pc = "exited"
    /\ mThread = "joined"

\* C5 as stated, for every accepted finish(): when the loop has quit, every
\* runnable posted before that finish() and due by its terminal runnable's
\* deadline has been executed.
C5_EveryFinishDrains ==
    pc = "exited" => \A t \in Terminals : DueBefore(t) \subseteq DispatchedSeqs

\* C7: after finish() sends its stop message, every task pending in the queue,
\* posted by post or by postDelayed, is executed before the worker thread exits.
C7_AllPendingRun ==
    (pc = "exited" /\ Terminals # {}) =>
        \A s \in 1..Len(posted) : s < FirstTerminal => s \in DispatchedSeqs

\* C8: an accepted finishNow() leaves the queue quitting and empty; from then on
\* no pending runnable is handed out, a runnable that is executing completes,
\* the worker thread ends and join() returns.
C8_FinishNowSkips ==
    /\ [][(lastRet' # lastRet /\ lastRet' = [op |-> "finishNow", val |-> TRUE])
             => (mQuitting' /\ mMessages' = << >> /\ cur' = cur /\ pc' = pc)]_vars
    /\ [][mQuitting => dispatched' = dispatched]_vars
    /\ (mQuitting /\ pc = "dispatch") ~> (pc = "next" /\ cur = NoMsg)
    /\ mQuitting ~> (pc = "exited")
    /\ \A u \in Users : (mQuitting /\ upc[u] = "join") ~> (mThread = "joined")

\* C8 witness: finishNow() was accepted while the first runnable was executing
\* and a second one was pending; the second one is gone from the queue.
C8_Witness ==
    /\ lastRet = [op |-> "finishNow", val |-> TRUE]
    /\ pc = "dispatch"
    /\ cur.seq = 1
    /\ Len(posted) = 2
    /\ dispatched = <<1>>
    /\ mMessages = << >>

\* C9: a getLooper() call made on a started, not yet joined HandlerThread has
\* returned only after the publication, and returned the Looper that the worker
\* thread installed, whose thread id is the worker thread's.
C9_GetLooperPublished ==
    (glLast.called /\ glLast.joinable) =>
        /\ promise.state = "value"
        /\ glLast.val = promise.value
        /\ glLast.val # NullLooper
        /\ glLast.val.mThreadId = Worker
        /\ (tLooper[Worker] # NullLooper => tLooper[Worker] = glLast.val)

\* C9 witness: getLooper() has returned the worker's Looper right after the
\* publication, before the worker thread has entered loop().
C9_Witness ==
    /\ glLast.called /\ glLast.joinable
    /\ pc = "loop"
    /\ glLast.val = tLooper[Worker]

\* C10: once getLooper() has returned a Looper handle, every later getLooper()
\* call returns that handle.
C10_CachedHandleForever == glFirst # NullLooper => glLast.val = glFirst

\* the enqueue indices of the messages of a queue
Seqs(msgs) == {msgs[i].seq : i \in 1..Len(msgs)}
\* position in a queue of the message with enqueue index s
Pos(msgs, s) == CHOOSE i \in 1..Len(msgs) : msgs[i].seq = s
\* every message of `after` is a message of `before`, unchanged, and the
\* messages of `after` are in the relative order they have in `before`
KeepsOrder(before, after) ==
    /\ Seqs(after) \subseteq Seqs(before)
    /\ \A i \in 1..Len(after) : after[i] = before[Pos(before, after[i].seq)]
    /\ \A i, j \in 1..Len(after) :
          i < j => Pos(before, after[i].seq) < Pos(before, after[j].seq)
\* message m comes before message n in dispatch order: deadline, then enqueue order
Before(m, n) == m.when < n.when \/ (m.when = n.when /\ m.seq < n.seq)

\* C11: a runnable or a handleMessage that throws does not end the loop: the
\* dispatch completes into the next call of next(), messages keep being handed
\* out in deadline-then-enqueue order, and (no quit, no removal) every accepted
\* message is eventually dispatched.
C11_FaultIsolated ==
    /\ [][pc = "dispatch" => pc' \in {"dispatch", "next"}]_vars
    /\ [][dispatched' # dispatched =>
            \A k \in 1..Len(mMessages') : Before(cur', mMessages'[k])]_vars
    /\ []<>(DispatchedSeqs = 1..Len(posted))

\* C11 witness: a throwing runnable, a message whose handleMessage throws and an
\* ordinary runnable have been dispatched one after the other.
C11_Witness ==
    /\ dispatched = <<1, 2, 3>>
    /\ Msg(1).callback = "throw"
    /\ Msg(2).callback = NoCallback /\ HandleMessageThrows(Msg(2))
    /\ Msg(3).callback = "task"
    /\ pc = "next"

\* C12: removeMessages(h, w) erases exactly the pending messages of Handler h
\* with code w and no callback; all other pending messages stay, unchanged and
\* in their relative order.
C12_RemoveMessagesExact ==
    [][\A u \in Users, h \in Handlers, w \in Whats :
         (mMessages' # mMessages /\ H_removeMessages(u, h, w)) =>
            LET gone == {mMessages[i].seq : i \in
                           {k \in 1..Len(mMessages) :
                               /\ mMessages[k].target = h
                               /\ mMessages[k].what = w
                               /\ mMessages[k].callback = NoCallback}}
            IN /\ Seqs(mMessages') = Seqs(mMessages) \ gone
               /\ Len(mMessages') = Cardinality(Seqs(mMessages'))
               /\ KeepsOrder(mMessages, mMessages')]_vars

\* C12 witness: of a message (h1, code 0), a runnable of h1 (code field 0) and a
\* message (h2, code 0), all pending, only the first has been erased.
C12_Witness ==
    /\ Len(posted) = 3
    /\ Msg(1).target = "h1" /\ Msg(1).what = 0 /\ Msg(1).callback = NoCallback
    /\ Msg(2).target = "h1" /\ Msg(2).what = 0 /\ Msg(2).callback = "task"
    /\ Msg(3).target = "h2" /\ Msg(3).what = 0 /\ Msg(3).callback = NoCallback
    /\ ~mQuitting
    /\ dispatched = << >> /\ cur = NoMsg
    /\ mMessages = <<Msg(2), Msg(3)>>

\* C13: removeCallbacks() of Handler h erases every pending runnable of h; all
\* messages without callback and all messages of other Handlers stay, unchanged
\* and in their relative order.
C13_RemoveCallbacksAll ==
    [][\A u \in Users, h \in Handlers :
         (mMessages' # mMessages /\ H_removeCallbacks(u, h)) =>
            LET gone == {mMessages[i].seq : i \in
                           {k \in 1..Len(mMessages) :
                               /\ mMessages[k].target = h
                               /\ mMessages[k].callback # NoCallback}}
            IN /\ Seqs(mMessages') = Seqs(mMessages) \ gone
               /\ Len(mMessages') = Cardinality(Seqs(mMessages'))
               /\ KeepsOrder(mMessages, mMessages')]_vars

\* C13 witness: two runnables of h1 and, between them, a runnable of h2 were
\* pending; both runnables of h1 have been erased and the one of h2 is pending.
C13_Witness ==
    /\ Len(posted) = 3
    /\ Msg(1).target = "h1" /\ Msg(1).callback = "task"
    /\ Msg(2).target = "h2" /\ Msg(2).callback = "task"
    /\ Msg(3).target = "h1" /\ Msg(3).callback = "task"
    /\ ~mQuitting
    /\ dispatched = << >> /\ cur = NoMsg
    /\ mMessages = <<Msg(2)>>

\* C14: a second removeMessages(h, w) right after the first changes nothing; a
\* removeMessages call leaves the message that has been dequeued alone, and the
\* only thing that can happen to that message is that its dispatch completes.
C14_RemoveIdempotent ==
    /\ [][\A u \in Users, h \in Handlers, w \in Whats :
            (mMessages' # mMessages /\ H_removeMessages(u, h, w)) =>
               /\ RemoveMessagesFrom(mMessages', h, w) = mMessages'
               /\ cur' = cur /\ pc' = pc /\ dispatched' = dispatched]_vars
    /\ [][pc = "dispatch" =>
            \/ pc' = "dispatch" /\ cur' = cur
            \/ pc' = "next" /\ cur' = NoMsg]_vars

\* C14 witness: two messages (h1, code 1) were sent; the first has been dequeued
\* and is being dispatched, the second has been erased meanwhile.
C14_Witness ==
    /\ Len(posted) = 2
    /\ \A s \in 1..2 : Msg(s).target = "h1" /\ Msg(s).what = 1
                        /\ Msg(s).callback = NoCallback
    /\ dispatched = <<1>>
    /\ pc = "dispatch" /\ cur = Msg(1)
    /\ ~mQuitting
    /\ mMessages = << >>

\* C15: a runnable or a handleMessage executes on the worker thread, which is
\* the owning thread of the Looper the Handlers are bound to, and next() hands
\* out a message only when no dispatch is in progress.
C15_SerialOnOwner ==
    /\ [](pc = "dispatch" =>
            /\ cur # NoMsg
            /\ mLooper = tLooper[Worker]
            /\ mLooper.mThreadId = Worker)
    /\ [][dispatched' # dispatched =>
            /\ cur = NoMsg
            /\ cur'.seq = dispatched'[Len(dispatched')]]_vars

\* C15 witness: a runnable has run and a message is now in handleMessage.
C15_Witness ==
    /\ Len(dispatched) = 2
    /\ Msg(dispatched[1]).callback = "task"
    /\ pc = "dispatch"
    /\ cur = Msg(dispatched[2])
    /\ cur.callback = NoCallback

\* C16: the tasks submitted to a WorkerThread are executed in the order in which
\* they were submitted.
C16_SubmissionOrder ==
    \A i, j \in 1..Len(dispatched) :
        (i < j /\ Msg(dispatched[i]).callback = "task"
               /\ Msg(dispatched[j]).callback = "task")
            => dispatched[i] < dispatched[j]

SendOps == {"sendMessage", "sendMessageDelayed", "sendMessageAtTime",
            "post", "postDelayed", "postAtTime"}

\* C17: a send / post call of a Handler returns false exactly when the queue is
\* quitting; on false the queue is unchanged, on true the queue is the old queue
\* with one new message inserted.
C17_SendFailsIffQuitting ==
    [][(posted' # posted \/ (lastRet' # lastRet /\ lastRet'.op \in SendOps)) =>
          /\ lastRet'.op \in SendOps
          /\ lastRet'.val = ~mQuitting
          /\ IF lastRet'.val
             THEN /\ Len(mMessages') = Len(mMessages) + 1
                  /\ Len(posted') = Len(posted) + 1
                  /\ KeepsOrder(mMessages', mMessages)
                  /\ Seqs(mMessages') = Seqs(mMessages) \cup {Len(posted')}
             ELSE mMessages' = mMessages /\ posted' = posted]_vars

\* C17 witness: two messages were accepted, the Looper was quit, and a
\* postAtTime call has returned false.
C17_Witness ==
    /\ mQuitting
    /\ Len(posted) = 2
    /\ lastRet = [op |-> "postAtTime", val |-> FALSE]

\* C18: when the queue is quit while the owning thread is blocked in next()
\* (queue empty or front message not due), the thread wakes and loop() returns;
\* nothing is dispatched once the queue is quitting.
C18_QuitWakesLoop ==
    /\ [][mQuitting => dispatched' = dispatched]_vars
    /\ (pc = "waiting" /\ mQuitting) ~> (pc = "exited")

\* C18 witness: the worker is blocked waiting for a delayed runnable that is not
\* due, and quit() from a user thread has just returned true and notified it.
C18_Witness ==
    /\ pc = "waiting"
    /\ mQuitting /\ cvNotified
    /\ lastRet = [op |-> "quit", val |-> TRUE]
    /\ Len(posted) = 1 /\ Msg(1).when > clock
    /\ dispatched = << >>

C20_PrepareTwice ==
    [][\A u \in Users :
         (L_prepare(u) /\ tLooper[u] # NullLooper) =>
            /\ lastErr' = [op |-> "prepare", thread |-> u, hadLooper |-> TRUE,
                           err |-> "AlreadyPrepared"]
            /\ tLooper' = tLooper]_vars

\* C20 witness: the second prepare() of thread u1 has failed and myLooper() of
\* u1 is still the Looper of its first prepare().
C20_Witness ==
    /\ lastErr = [op |-> "prepare", thread |-> "u1", hadLooper |-> TRUE,
                  err |-> "AlreadyPrepared"]
    /\ tLooper["u1"] = [mThreadId |-> "u1", gen |-> 2]
    /\ nextGen = 3

\* C21: when the Looper is quit after it was prepared and before its thread
\* is in loop() (HandlerThread::quit between the publication and the entry
\* into loop()), the loop() that follows returns at once: from there on the
\* worker dispatches nothing, never waits on the queue, and run() ends.
C21_QuitBeforeLoop ==
    /\ [][(mQuitting /\ pc \in {"loop", "next", "check"})
            => (pc' \in {"loop", "next", "check", "exited"} /\ dispatched' = dispatched)]_vars
    /\ ((mQuitting /\ pc = "loop") ~> (pc = "exited"))

\* C21 witness: the Looper is published, a runnable was accepted, and quit()
\* took effect while the worker had not yet entered loop().
C21_Witness ==
    /\ pc = "loop"
    /\ mQuitting
    /\ Len(posted) = 1
    /\ dispatched = << >>
    /\ lastRet = [op |-> "quit", val |-> TRUE]

\* after loop() has returned on user thread u (and before u prepares again)
LoopReturned(u) == upc[u] = "idle" /\ tLooper[u] = NullLooper /\ uQuitting[u]

\* C22: when loop() returns, the thread-local slot of its thread is empty: a
\* prepare() that follows succeeds and installs a new Looper, and a loop()
\* that follows without a new prepare() fails with NoLooper.
C22_SlotEmptyAfterLoop ==
    [][\A u \in Users :
          /\ (upc[u] = "loop" /\ upc'[u] = "idle") => LoopReturned(u)'
          /\ (LoopReturned(u) /\ L_prepare(u))
                => /\ lastErr' = [op |-> "prepare", thread |-> u, hadLooper |-> FALSE,
                                  err |-> "none"]
                   /\ tLooper'[u] = [mThreadId |-> u, gen |-> nextGen]
                   /\ \A t \in Threads : tLooper[t].gen < nextGen
          /\ (LoopReturned(u) /\ L_loop(u))
                => /\ lastErr' = [op |-> "loop", thread |-> u, hadLooper |-> FALSE,
                                  err |-> "NoLooper"]
                   /\ upc'[u] = "idle"]_vars

\* C22 witness: u1 prepared a Looper, ran loop() until it returned, and has
\* prepared again (u2 never prepared one, so both allocations are u1's).
C22_Witness ==
    /\ tLooper["u1"] = [mThreadId |-> "u1", gen |-> 3]
    /\ lastErr = [op |-> "prepare", thread |-> "u1", hadLooper |-> FALSE, err |-> "none"]
    /\ tLooper["u2"] = NullLooper
    /\ ~uQuitting["u2"]

\* what Looper::loop is to do with message m
ActionFor(m) ==
    IF m.callback # NoCallback THEN "callback"
    ELSE IF m.target # NullHandler THEN "handleMessage"
    ELSE "none"

C24_ReleasedNeverHandled ==
    \A i \in 1..Len(invoked) :
        invoked[i].kind = "handleMessage" => invoked[i].userHolds

\* C25: no caller is ever blocked inside HandlerThread::quit().
C25_QuitNeverBlocks == \A u \in Users : upc[u] # "quit"

\* C26: after the worker failed before publishing, what getLooper() hands to
\* its caller differs from the nullptr it returns for a thread that was never
\* started.
C26_FailureSurfaced ==
    (glLast.called /\ glLast.joinable /\ promise.state = "exception")
        => glLast.val # NullLooper

\* C27: on a HandlerThread that was never started, getLooper() returns nullptr
\* without blocking.
C27_GetLooperUnstarted ==
    mThread = "unstarted"
        => /\ \A u \in Users : upc[u] # "getLooper"
           /\ glLast.called => (glLast.val = NullLooper /\ ~glLast.joinable)

\* C27 witness: getLooper() has returned on the thread that was never started.
C27_Witness ==
    /\ mThread = "unstarted"
    /\ pc = "unstarted"
    /\ glLast = [called |-> TRUE, joinable |-> FALSE, val |-> NullLooper]
    /\ \A u \in Users : upc[u] = "idle"

\* a step of WorkerThread::post, postDelayed or finish by user thread u
WorkerPostCall(u) ==
    \/ WT_post(u)
    \/ \E d \in -1..MaxDelay : WT_postDelayed(u, d)
    \/ WT_finish(u)

\* C28: post, postDelayed and finish return false and change nothing on a
\* WorkerThread that is not started (no published Looper, no internal
\* Handler); after a successful start() and before any quit they return true.
C28_PostNeedsStart ==
    [][\A u \in Users :
          ((lastRet' # lastRet \/ posted' # posted) /\ WorkerPostCall(u))
             => /\ (mThread = "unstarted" \/ mWorkerHandler = NullHandler)
                   => /\ ~lastRet'.val
                      /\ UNCHANGED <<mMessages, mQuitting, cvNotified, posted, dispatched>>
                /\ (mWorkerHandler # NullHandler /\ ~mQuitting) => lastRet'.val]_vars

\* C28 witness: finish() has returned false on the WorkerThread that was never
\* started, and nothing was enqueued.
C28_Witness ==
    /\ mThread = "unstarted"
    /\ mWorkerHandler = NullHandler
    /\ lastRet = [op |-> "finish", val |-> FALSE]
    /\ posted = << >>
    /\ mMessages = << >>

\* the runnables the user posted that were due when the destructor was entered
DueAtDestruction ==
    {s \in 1..Len(posted) : posted[s].callback = "task" /\ posted[s].when <= dtor.at}

\* C29: ~WorkerThread terminates in whatever state it finds the object.  When
\* it returns the worker thread has ended, and if the WorkerThread was running
\* every runnable posted before with no delay (its deadline is the time of its
\* post, hence not later than the destruction) has been executed.
C29_DestructorTerminates ==
    /\ [](dtor.phase = "done"
            => /\ pc \in {"unstarted", "exited"}
               /\ mThread # "joinable"
               /\ dtor.running
                     => \A s \in DueAtDestruction :
                           \E i \in 1..Len(invoked) :
                               invoked[i].seq = s /\ invoked[i].kind = "callback")
    /\ ((dtor.phase = "join") ~> (dtor.phase = "done"))

\* C29 witness: the destructor found the WorkerThread running with two
\* runnables posted, and has returned.
C29_Witness ==
    /\ dtor.phase = "done"
    /\ dtor.running
    /\ Cardinality(DueAtDestruction) = 2
    /\ mThread = "joined"

\* C30: Message::sendToTarget on a message with a target puts it into the
\* queue of that Handler with the deadline now and returns what the enqueue
\* returns; on a message without target it returns false and enqueues nothing.
C30_SendToTarget ==
    [][(lastRet'.op = "sendToTarget" /\ (lastRet' # lastRet \/ posted' # posted)) =>
       \A u \in Users, t \in {NullHandler, "h1"}, w \in Whats, cb \in {NoCallback} :
          M_sendToTarget(u, t, w, cb)
             => IF t = NullHandler
                THEN /\ lastRet' = [op |-> "sendToTarget", val |-> FALSE]
                     /\ UNCHANGED <<mMessages, posted>>
                ELSE /\ lastRet' = [op |-> "sendToTarget", val |-> ~mQuitting]
                     /\ IF mQuitting
                        THEN UNCHANGED <<mMessages, posted>>
                        ELSE LET m == [seq |-> Len(posted) + 1, what |-> w, target |-> t,
                                       callback |-> cb, when |-> clock]
                             IN /\ posted' = Append(posted, m)
                                /\ Len(mMessages') = Len(mMessages) + 1
                                /\ \E i \in 1..Len(mMessages') : mMessages'[i] = m
                                /\ KeepsOrder(mMessages', mMessages)]_vars

\* C30 witness: a sendToTarget without target has returned false after one
\* with a target was accepted at a later time than the message before it.
C30_Witness ==
    /\ lastRet = [op |-> "sendToTarget", val |-> FALSE]
    /\ ~mQuitting
    /\ Len(posted) = 2
    /\ posted[2].target = "h1"
    /\ posted[2].when = 1
    /\ posted[1].when = 0

\* C31: once quit() has taken effect on the queue, the quitting flag stays
\* true and the queue stays empty, whatever is called afterwards (sends,
\* posts, removeMessages, removeCallbacks, next, quit again).
C31_QuitIsFinal ==
    /\ [](mQuitting => mMessages = << >>)
    /\ [][mQuitting => (mQuitting' /\ mMessages' = mMessages)]_vars

\* C31 witness: the queue was quit with messages accepted before, next() has
\* returned nullopt, and a later send was refused.
C31_Witness ==
    /\ mQuitting
    /\ pc = "exited"
    /\ Len(posted) >= 2
    /\ lastRet = [op |-> "sendMessageDelayed", val |-> FALSE]

\* the deadlines of msgs are ascending
SortedByWhen(msgs) ==
    \A i, j \in 1..Len(msgs) : i < j => msgs[i].when <= msgs[j].when

\* C32: the queue is sorted by ascending deadline in every state; an enqueue
\* puts the new message behind every pending message whose deadline is not
\* later than its own and before every one with a later deadline, and every
\* change of the queue keeps the relative order of the messages that stay.
C32_SortedQueue ==
    /\ [](SortedByWhen(mMessages))
    /\ [][mMessages' # mMessages =>
            IF posted' # posted
            THEN LET m == posted'[Len(posted')]
                     i == Pos(mMessages', m.seq)
                 IN /\ Len(mMessages') = Len(mMessages) + 1
                    /\ mMessages'[i] = m
                    /\ \A j \in 1..(i - 1) : mMessages'[j].when <= m.when
                    /\ \A j \in (i + 1)..Len(mMessages') : mMessages'[j].when > m.when
                    /\ KeepsOrder(mMessages', mMessages)
            ELSE /\ Len(mMessages') < Len(mMessages)
                 /\ KeepsOrder(mMessages, mMessages')]_vars

\* C32 witness: a message was inserted between two pending ones with an
\* earlier and a later deadline, although it was sent last.
C32_Witness ==
    /\ Len(mMessages) = 3
    /\ mMessages[2].seq = 3
    /\ mMessages[1].when = mMessages[2].when
    /\ mMessages[2].when < mMessages[3].when

\* C33: with several producers and the one consumer, no accepted message is
\* returned by next() twice, none is in the queue twice or still there after
\* its dispatch, and a message leaves the queue only by being returned by
\* next(), by a removal whose predicate matches it, or by quit.
C33_NoLossNoDuplicate ==
    /\ [](/\ \A i, j \in 1..Len(dispatched) : i # j => dispatched[i] # dispatched[j]
          /\ \A i, j \in 1..Len(mMessages) : i # j => mMessages[i].seq # mMessages[j].seq
          /\ Seqs(mMessages) \cap DispatchedSeqs = {}
          /\ Seqs(mMessages) \cup DispatchedSeqs \subseteq 1..Len(posted)
          /\ \A i \in 1..Len(mMessages) : mMessages[i] = Msg(mMessages[i].seq))
    /\ [][mMessages' # mMessages =>
            \A s \in Seqs(mMessages) \ Seqs(mMessages') :
                \/ dispatched' = Append(dispatched, s)
                \/ (~mQuitting /\ mQuitting')
                \/ \E u \in Users, h \in Handlers, w \in Whats :
                      H_removeMessages(u, h, w) /\ MatchesMessage(Msg(s), h, w)
                \/ \E u \in Users, h \in Handlers :
                      H_removeCallbacks(u, h) /\ MatchesCallback(Msg(s), h)]_vars

\* C33 witness: of three accepted messages one was dispatched, one was removed
\* and one is still pending.
C33_Witness ==
    /\ Len(posted) = 3
    /\ Len(dispatched) = 1
    /\ Len(mMessages) = 1
    /\ ~mQuitting
    /\ pc = "waiting"

InvokedSeqs == {invoked[i].seq : i \in 1..Len(invoked)}

\* C34: a runnable posted from inside a running callback onto the same Looper
\* is not executed before that callback has returned: the post only enqueues
\* it, and while the callback runs nothing else is executed.  With no quit and
\* no removal it is executed later by the same loop.
C34_NoReentrantDispatch ==
    /\ [][(posted' # posted /\ pc = "dispatch" /\ pc' = "callback")
            => /\ posted'[Len(posted')].callback = "task"
               /\ cur' = cur
               /\ invoked' = invoked
               /\ \E i \in 1..Len(mMessages') : mMessages'[i] = posted'[Len(posted')]]_vars
    /\ [][pc = "callback"
            => \/ invoked' = invoked /\ dispatched' = dispatched /\ pc' = "callback"
               \/ /\ pc' = "next"
                  /\ invoked' = Append(invoked, [seq |-> cur.seq, kind |-> "callback",
                                                 userHolds |-> TRUE])]_vars
    /\ \A n \in 1..MaxMsgs :
          (n <= Len(posted) /\ posted[n].callback = "task") ~> (n \in InvokedSeqs)

\* C34 witness: the runnable posted by the running callback is pending while
\* that callback has not returned yet.
C34_Witness ==
    /\ pc = "callback"
    /\ cur.callback = "cb_post"
    /\ Len(mMessages) >= 1
    /\ Head(mMessages).callback = "task"
    /\ Head(mMessages).seq \notin InvokedSeqs
    /\ cur.seq \notin InvokedSeqs

\* C36: MessageQueue::mMutex is not held while a callback or handleMessage
\* runs, so a callback that posts, sends, removes or quits on its own Looper
\* is not blocked and returns; after a quit made from inside a callback that
\* callback still runs to its end before loop() returns.
C36_NoLockInDispatch ==
    /\ [](pc \in {"dispatch", "callback"} => qMutex = NoThread)
    /\ [](pc = "exited" => Len(invoked) = Len(dispatched))
    /\ [][pc = "callback" => pc' \in {"callback", "next"}]_vars
    /\ \A cb \in InnerOps :
          (pc = "dispatch" /\ cur.callback = cb) ~> (cur.seq = 0 /\ pc \in {"next", "check"})

\* C36 witness: a callback has quit its own Looper from inside the dispatch
\* and has returned, and loop() has ended after it.
C36_Witness ==
    /\ pc = "exited"
    /\ mQuitting
    /\ Len(invoked) >= 1
    /\ Msg(invoked[Len(invoked)].seq).callback = "cb_quit"

\* C35: no wake-up is lost: with no quit and no removal, every accepted
\* message is eventually returned by next(), whenever its enqueue falls
\* relative to the consumer's locking, waiting and waking in next().
C35_NoLostWakeup ==
    \A n \in 1..MaxMsgs : (n <= Len(posted)) ~> (n \in DispatchedSeqs)

\* C35 witness: a message was accepted while the consumer was blocked in
\* next() on the empty queue, and a notification is pending for it.
C35_Witness ==
    /\ pc = "waiting"
    /\ nextPollTimeout = Forever
    /\ cvNotified
    /\ Len(mMessages) = 1
    /\ dispatched = << >>

\* C37: a message sent or a runnable posted through a Handler is in the queue
\* with that Handler as its target, whatever target it named before; so only
\* a removeMessages of the sending Handler takes it out again.
C37_TargetIsSender ==
    /\ [][posted' # posted =>
            \A u \in Users, h \in Handlers :
               ((\E prior \in Handlers \cup {NullHandler}, w \in Whats :
                    H_sendMessageOf(u, h, prior, w))
                \/ H_post(u, h, "task"))
                  => /\ posted'[Len(posted')].target = h
                     /\ \E i \in 1..Len(mMessages') :
                           mMessages'[i] = posted'[Len(posted')]]_vars
    /\ [][mMessages' # mMessages =>
            \A u \in Users, h \in Handlers, w \in Whats :
               H_removeMessages(u, h, w)
                  => \A s \in Seqs(mMessages) \ Seqs(mMessages') : Msg(s).target = h]_vars

\* C37 witness: messages were sent through both Handlers with the same code;
\* the removeMessages of h1 took out the one sent through h1 only.
C37_Witness ==
    /\ Len(posted) = 2
    /\ posted[1].target = "h1" /\ posted[1].callback = NoCallback
    /\ posted[2].target = "h2" /\ posted[2].callback = NoCallback
    /\ posted[1].what = posted[2].what
    /\ mMessages = <<posted[2]>>
    /\ dispatched = << >>

\* the Looper of user thread u was quit and u is not (yet) in loop()
QuitNotLooped(u) == tLooper[u] # NullLooper /\ uQuitting[u] /\ upc[u] = "idle"

C39_FinishedWorkerExits ==
    /\ (Terminals # {}) ~> (pc = "exited")
    /\ \A u \in Users : (Terminals # {} /\ upc[u] = "join") ~> (upc[u] = "idle")

====
